---- MODULE Spec2Model ----
(***************************************************************************)
(* Response lifecycle of one CommandInteraction                           *)
(* (lib/structures/CommandInteraction.js).                                 *)
(*                                                                         *)
(* Every response method is an async function: its body up to the client   *)
(* call runs synchronously when the method is invoked (guard, content      *)
(* normalisation, dispatch of the REST call), and the continuation         *)
(* `.then(() => this.update())` runs later, when the REST call settles.    *)
(* An invocation is therefore one Invoke_* step, and the settlement of a   *)
(* dispatched call is a Settle* step.  The REST client is external: a call *)
(* in flight may succeed or fail.                                          *)
(***************************************************************************)
EXTENDS Integers, Sequences, FiniteSets, Bags

VARIABLES acknowledged, pending, last, initialOK, initialFailed, transitions,
          followupsOK, overlapped

\* The construction of the interaction from its payload: the payload as
\* delivered (raw), the payload object the constructor works on (info;
\* this.data is info.data itself), the fields the constructor set (self),
\* the client's guild registry and user cache, and the number of
\* constructions done from this payload.
VARIABLES raw, info, self, guilds, clientUsers, passes

rvars == <<raw, info, self, guilds, clientUsers, passes>>

vars == <<acknowledged, pending, last, initialOK, initialFailed, transitions,
          followupsOK, overlapped, rvars>>

(* ------------------------------ bounds -------------------------------- *)

\* REST calls that may be in flight at once.
MaxInFlight == 2

\* Saturation value of the counter of completed followups.
MaxCount == 2

\* IDs a kind of the resolved block may hold.
MaxIDs == 2

\* Constructions from one payload.
MaxPasses == 2

(* ----------------------- identity of the interaction ------------------- *)

id == "interaction-id"

token == "interaction-token"

applicationID == "application-id"

(* ------------------------------ JS values ------------------------------ *)

Undefined == [t |-> "undefined"]

Null == [t |-> "null"]

Str(s) == [t |-> "string", v |-> s]

\* A number, written by its decimal digits.
Num(digits) == [t |-> "number", v |-> digits]

\* An object argument: its content, embeds and allowedMentions properties.
\* embeds is "undefined", "empty" (the array []) or "nonempty";
\* allowedMentions is "undefined" or "given".
Obj(c, e, am) == [t |-> "object", content |-> c, embeds |-> e, allowedMentions |-> am]

\* "" + x
StringOf(x) ==
    CASE x.t = "string" -> x
      [] x.t = "number" -> Str(x.v)
      [] x.t = "null" -> Str("null")
      [] x.t = "undefined" -> Str("undefined")
      [] OTHER -> Str("[object Object]")

\* JS truthiness of the embeds property: undefined is falsy, any array
\* (the empty one included) is truthy.
Truthy(e) == e # "undefined"

\* flags || 0: undefined and 0 are falsy.
OrZero(flags) == IF flags = Undefined \/ flags = Num("0") THEN Num("0") ELSE flags

(* ------------------------------ inputs --------------------------------- *)

FlagsArgs == {Undefined, Num("0"), Num("64")}

ContentProps == {Undefined, Str(""), Str("hi"), Num("5")}

EmbedsProps == {"undefined", "empty", "nonempty"}

ContentArgs ==
    {Undefined, Null, Str(""), Str("hi"), Num("5")}
    \cup {Obj(c, e, "undefined") : c \in ContentProps, e \in EmbedsProps}
    \cup {Obj(Undefined, "undefined", "given"), Obj(Str("hi"), "undefined", "given")}

\* Content arguments given to the edit methods.
EditArgs == {Undefined, Str("hi"), Num("5"), Obj(Num("5"), "undefined", "undefined")}

MessageIDs == {"@original", "message-1"}

\* Arguments of one invocation; "n/a" where the method has no such parameter.
Args(flags, messageID, content) ==
    [flags |-> flags, messageID |-> messageID, content |-> content]

NotApplicable == [t |-> "n/a"]

(* --------------------------- outbound calls ---------------------------- *)

NoBody == [t |-> "none"]

createInteractionResponse(iid, tok, type, data) ==
    [fn |-> "createInteractionResponse", key |-> <<iid, tok>>, type |-> type,
     messageID |-> "n/a", body |-> data]

executeWebhook(app, tok, options) ==
    [fn |-> "executeWebhook", key |-> <<app, tok>>, type |-> "n/a",
     messageID |-> "n/a", body |-> options]

deleteWebhookMessage(app, tok, messageID) ==
    [fn |-> "deleteWebhookMessage", key |-> <<app, tok>>, type |-> "n/a",
     messageID |-> messageID, body |-> NoBody]

editWebhookMessage(app, tok, messageID, options) ==
    [fn |-> "editWebhookMessage", key |-> <<app, tok>>, type |-> "n/a",
     messageID |-> messageID, body |-> options]

getWebhookMessage(app, tok, messageID) ==
    [fn |-> "getWebhookMessage", key |-> <<app, tok>>, type |-> "n/a",
     messageID |-> messageID, body |-> NoBody]

(* --------------------- outcome of a method's body ---------------------- *)

NoError == "none"

AlreadyAcknowledgedError == "You have already acknowledged this interaction."

NotYetAcknowledgedError == "cannot be used to acknowledge an interaction"

EmptyContentError == "No content or embeds"

RemoteError == "remote error"

\* The body threw (or returned a rejected promise) before any client call.
Throw(e) == [err |-> e, calls |-> <<>>, then |-> "none"]

\* The body made one client call; `then` is the continuation chained on it.
Dispatch(call, then) == [err |-> NoError, calls |-> <<call>>, then |-> then]

(* ------------------------- content normalisation ----------------------- *)

\* The coercion every content-taking method applies to its argument:
\*   if(content !== undefined) {
\*       if(typeof content !== "object" || content === null)
\*           content = {content: "" + content};
\*       else if(content.content !== undefined && typeof content.content !== "string")
\*           content.content = "" + content.content;
\*   }
CoerceContent(content) ==
    IF content = Undefined THEN Undefined
    ELSE IF content.t # "object"
         THEN Obj(StringOf(content), "undefined", "undefined")
    ELSE IF content.content # Undefined /\ content.content.t # "string"
         THEN [content EXCEPT !.content = StringOf(content.content)]
    ELSE content

\* Object.assign({wait: true}, content)
AssignWait(content) ==
    IF content = Undefined
    THEN [t |-> "object", wait |-> TRUE, content |-> Undefined,
          embeds |-> "undefined", allowedMentions |-> "undefined"]
    ELSE [t |-> "object", wait |-> TRUE, content |-> content.content,
          embeds |-> content.embeds, allowedMentions |-> content.allowedMentions]

\* createMessage's third branch: an object argument whose content is a
\* string or undefined, with content undefined and embeds falsy.
NoContentOrEmbeds(content) ==
    /\ content # Undefined
    /\ content.t = "object"
    /\ ~(content.content # Undefined /\ content.content.t # "string")
    /\ content.content = Undefined
    /\ ~Truthy(content.embeds)

\* content.allowed_mentions = this._client._formatAllowedMentions(content.allowedMentions)
\* when content.content !== undefined || content.embeds || content.allowedMentions
WithAllowedMentions(content) ==
    IF content = Undefined THEN Undefined
    ELSE [t |-> "object", content |-> content.content, embeds |-> content.embeds,
          allowedMentions |-> content.allowedMentions,
          allowed_mentions |->
              IF \/ content.content # Undefined
                 \/ Truthy(content.embeds)
                 \/ content.allowedMentions # "undefined"
              THEN <<"_formatAllowedMentions", content.allowedMentions>>
              ELSE <<"absent">>]

(* ------------------------------ Interaction ---------------------------- *)

\* Interaction.update(): marks the interaction acknowledged.
update == "true"

\* Values of `acknowledged` on a newly constructed interaction.
FreshAcknowledged == {"unset", "false"}

(* ------------------------ the response methods ------------------------- *)

\* acknowledge without its `acknowledged === true` check.
acknowledge_NoGuard(ack, flags) ==
    Dispatch(createInteractionResponse(id, token,
                 "DEFERRED_CHANNEL_MESSAGE_WITH_SOURCE",
                 [t |-> "object", flags |-> OrZero(flags)]),
             "update")

acknowledge(ack, flags) ==
    IF ack = "true" THEN Throw(AlreadyAcknowledgedError)
    ELSE Dispatch(createInteractionResponse(id, token,
                      "DEFERRED_CHANNEL_MESSAGE_WITH_SOURCE",
                      [t |-> "object", flags |-> OrZero(flags)]),
                  "update")

\* createFollowup sending its message as an initial response.
createFollowup_AsInitialResponse(ack, content) ==
    IF ack = "false" THEN Throw(NotYetAcknowledgedError)
    ELSE Dispatch(createInteractionResponse(id, token,
                      "CHANNEL_MESSAGE_WITH_SOURCE",
                      AssignWait(CoerceContent(content))),
                  "none")

createFollowup(ack, content) ==
    IF ack = "false" THEN Throw(NotYetAcknowledgedError)
    ELSE Dispatch(executeWebhook(applicationID, token,
                      AssignWait(CoerceContent(content))),
                  "none")

\* createMessage without its delegation to createFollowup.
createMessage_NoRedirect(ack, content) ==
    IF NoContentOrEmbeds(content) THEN Throw(EmptyContentError)
    ELSE Dispatch(createInteractionResponse(id, token,
                      "CHANNEL_MESSAGE_WITH_SOURCE",
                      WithAllowedMentions(CoerceContent(content))),
                  "update")

createMessage(ack, content) ==
    IF ack = "true" THEN createFollowup(ack, content)
    ELSE IF NoContentOrEmbeds(content) THEN Throw(EmptyContentError)
    ELSE Dispatch(createInteractionResponse(id, token,
                      "CHANNEL_MESSAGE_WITH_SOURCE",
                      WithAllowedMentions(CoerceContent(content))),
                  "update")

\* defer sending its flags argument as given, without `|| 0`.
defer_FlagsAsGiven(ack, flags) ==
    IF ack = "true" THEN Throw(AlreadyAcknowledgedError)
    ELSE Dispatch(createInteractionResponse(id, token,
                      "DEFERRED_CHANNEL_MESSAGE_WITH_SOURCE",
                      [t |-> "object", flags |-> flags]),
                  "update")

\* defer admitting only an interaction whose state is exactly false.
defer_RejectsUnlessFalse(ack, flags) ==
    IF ack # "false" THEN Throw(AlreadyAcknowledgedError)
    ELSE Dispatch(createInteractionResponse(id, token,
                      "DEFERRED_CHANNEL_MESSAGE_WITH_SOURCE",
                      [t |-> "object", flags |-> OrZero(flags)]),
                  "update")

defer(ack, flags) ==
    IF ack = "true" THEN Throw(AlreadyAcknowledgedError)
    ELSE Dispatch(createInteractionResponse(id, token,
                      "DEFERRED_CHANNEL_MESSAGE_WITH_SOURCE",
                      [t |-> "object", flags |-> OrZero(flags)]),
                  "update")

\* deleteMessage checking `acknowledged` only after the client call is made.
deleteMessage_GuardAfterCall(ack, messageID) ==
    [err |-> IF ack = "false" THEN NotYetAcknowledgedError ELSE NoError,
     calls |-> <<deleteWebhookMessage(applicationID, token, messageID)>>,
     then |-> "none"]

deleteMessage(ack, messageID) ==
    IF ack = "false" THEN Throw(NotYetAcknowledgedError)
    ELSE Dispatch(deleteWebhookMessage(applicationID, token, messageID), "none")

deleteOriginalMessage(ack) ==
    IF ack = "false" THEN Throw(NotYetAcknowledgedError)
    ELSE Dispatch(deleteWebhookMessage(applicationID, token, "@original"), "none")

\* editMessage issuing its client call twice.
editMessage_CallsTwice(ack, messageID, content) ==
    IF ack = "false" THEN Throw(NotYetAcknowledgedError)
    ELSE [err |-> NoError,
          calls |-> <<editWebhookMessage(applicationID, token, messageID,
                                         CoerceContent(content)),
                      editWebhookMessage(applicationID, token, messageID,
                                         CoerceContent(content))>>,
          then |-> "none"]

editMessage(ack, messageID, content) ==
    IF ack = "false" THEN Throw(NotYetAcknowledgedError)
    ELSE Dispatch(editWebhookMessage(applicationID, token, messageID,
                      CoerceContent(content)),
                  "none")

editOriginalMessage(ack, content) ==
    IF ack = "false" THEN Throw(NotYetAcknowledgedError)
    ELSE Dispatch(editWebhookMessage(applicationID, token, "@original",
                      CoerceContent(content)),
                  "none")

getOriginalMessage(ack) ==
    IF ack = "false" THEN Throw(NotYetAcknowledgedError)
    ELSE Dispatch(getWebhookMessage(applicationID, token, "@original"), "none")

(* ------------------------------ settlement ----------------------------- *)

\* A continuation that resets the state when the call fails.
OnSettled_RollbackOnFailure(then, ok, ack) ==
    IF ok /\ then = "update" THEN update
    ELSE IF ~ok THEN "false" ELSE ack

\* A continuation that runs update() whether the call succeeded or failed.
OnSettled_UpdateAlways(then, ok, ack) ==
    IF then = "update" THEN update ELSE ack

\* update() chained on every client call, webhook calls included.
OnSettled_UpdateOnAnySuccess(then, ok, ack) ==
    IF ok THEN update ELSE ack

\* The continuation chained on the client call: `.then(() => this.update())`
\* runs only when the call succeeded; a webhook call has no continuation.
OnSettled(then, ok, ack) ==
    IF ok /\ then = "update" THEN update ELSE ack

\* What the promise returned by the method settles with: the rejection of
\* the client call, the return value of the continuation (undefined), or
\* the client call's own value.
SettledValue(e, ok) ==
    IF ~ok THEN <<"rejected", RemoteError>>
    ELSE IF e.then = "update" THEN <<"resolved", "undefined">>
    ELSE <<"resolved", "value of " \o e.fn>>

(* -------------------------------- state -------------------------------- *)

NoArgs == Args(NotApplicable, "n/a", NotApplicable)

Saturate(n) == IF n < MaxCount THEN n + 1 ELSE MaxCount

\* The calls in flight made by one invocation, as a bag of
\* [op, fn, then]: the method, the client function called and the
\* continuation chained on the call.
InFlight(op, eff) ==
    LET entry(i) == [op |-> op, fn |-> eff.calls[i].fn, then |-> eff.then]
        entries == {entry(i) : i \in 1..Len(eff.calls)}
    IN  [e \in entries |-> Cardinality({i \in 1..Len(eff.calls) : entry(i) = e})]

\* The response methods do not touch the payload or the client's caches.
ResolverIdle ==
    /\ raw = [t |-> "undefined"]
    /\ info = [t |-> "undefined"]
    /\ self = [status |-> "none"]
    /\ guilds = {}
    /\ clientUsers = {}
    /\ passes = 0

Init ==
    /\ ResolverIdle
    /\ acknowledged \in FreshAcknowledged
    /\ pending = EmptyBag
    /\ last = [kind |-> "constructed", op |-> "constructor", args |-> NoArgs,
               err |-> NoError, calls |-> <<>>, fn |-> "n/a",
               value |-> <<"n/a">>, ackBefore |-> acknowledged]
    /\ initialOK = 0
    /\ initialFailed = FALSE
    /\ transitions = 0
    /\ followupsOK = 0
    /\ overlapped = FALSE

\* One invocation of method `op` whose body had outcome `eff`.
Invoke(op, args, eff) ==
    /\ BagCardinality(pending) + Len(eff.calls) <= MaxInFlight
    /\ pending' = pending (+) InFlight(op, eff)
    /\ last' = [kind |-> IF eff.err # NoError THEN "threw" ELSE "dispatched",
                op |-> op, args |-> args, err |-> eff.err, calls |-> eff.calls,
                fn |-> "n/a", value |-> <<"n/a">>, ackBefore |-> acknowledged]
    /\ overlapped' = (overlapped \/ pending # EmptyBag)
    /\ UNCHANGED <<acknowledged, initialOK, initialFailed, transitions, followupsOK>>
    /\ UNCHANGED rvars

Invoke_acknowledge ==
    \E flags \in FlagsArgs :
        Invoke("acknowledge", Args(flags, "n/a", NotApplicable),
               acknowledge(acknowledged, flags))

Invoke_createFollowup ==
    \E content \in ContentArgs :
        Invoke("createFollowup", Args(NotApplicable, "n/a", content),
               createFollowup(acknowledged, content))

Invoke_createMessage ==
    \E content \in ContentArgs :
        Invoke("createMessage", Args(NotApplicable, "n/a", content),
               createMessage(acknowledged, content))

Invoke_defer ==
    \E flags \in FlagsArgs :
        Invoke("defer", Args(flags, "n/a", NotApplicable),
               defer(acknowledged, flags))

Invoke_deleteMessage ==
    \E messageID \in MessageIDs :
        Invoke("deleteMessage", Args(NotApplicable, messageID, NotApplicable),
               deleteMessage(acknowledged, messageID))

Invoke_deleteOriginalMessage ==
    Invoke("deleteOriginalMessage", NoArgs, deleteOriginalMessage(acknowledged))

Invoke_editMessage ==
    \E messageID \in MessageIDs, content \in EditArgs :
        Invoke("editMessage", Args(NotApplicable, messageID, content),
               editMessage(acknowledged, messageID, content))

Invoke_editOriginalMessage ==
    \E content \in EditArgs :
        Invoke("editOriginalMessage", Args(NotApplicable, "n/a", content),
               editOriginalMessage(acknowledged, content))

Invoke_getOriginalMessage ==
    Invoke("getOriginalMessage", NoArgs, getOriginalMessage(acknowledged))

\* The client call e in flight settles: ok = it succeeded.
Settle(e, ok) ==
    /\ acknowledged' = OnSettled(e.then, ok, acknowledged)
    /\ pending' = pending (-) SetToBag({e})
    /\ last' = [kind |-> "settled", op |-> e.op, args |-> NoArgs,
                err |-> IF ok THEN NoError ELSE RemoteError,
                calls |-> <<>>, fn |-> e.fn, value |-> SettledValue(e, ok),
                ackBefore |-> acknowledged]
    /\ initialOK' = IF ok /\ e.fn = "createInteractionResponse"
                    THEN Saturate(initialOK) ELSE initialOK
    /\ initialFailed' = (initialFailed \/ (~ok /\ e.fn = "createInteractionResponse"))
    /\ transitions' = IF acknowledged # "true" /\ acknowledged' = "true"
                      THEN Saturate(transitions) ELSE transitions
    /\ followupsOK' = IF ok /\ e.op = "createFollowup"
                      THEN Saturate(followupsOK) ELSE followupsOK
    /\ UNCHANGED overlapped
    /\ UNCHANGED rvars

SettleSuccess == \E e \in BagToSet(pending) : Settle(e, TRUE)

SettleFailure == \E e \in BagToSet(pending) : Settle(e, FALSE)

Next ==
    \/ Invoke_acknowledge
    \/ Invoke_createFollowup
    \/ Invoke_createMessage
    \/ Invoke_defer
    \/ Invoke_deleteMessage
    \/ Invoke_deleteOriginalMessage
    \/ Invoke_editMessage
    \/ Invoke_editOriginalMessage
    \/ Invoke_getOriginalMessage
    \/ SettleSuccess
    \/ SettleFailure

Spec == Init /\ [][Next]_vars

(* ======================= construction (hydration) ====================== *)

TypeError == "TypeError"

PayloadShapeError == "PayloadShapeError"

\* The client object (this._client) passed to the entity constructors.
ClientRef == [t |-> "client"]

\* One raw entry of the payload; ok = it has its required fields.
RawEntry(i, ok) == [t |-> "raw", id |-> i, ok |-> ok]

\* A per-kind mapping of the resolved block: a plain object (as JSON
\* delivers it) or a Map, holding <<key, value>> in insertion order.
\* A key is <<"id", i>> (the ID string) or <<"index", n>> (the number n).
Mapping(shape, entries) == [t |-> "mapping", shape |-> shape, entries |-> entries]

Kinds == <<"users", "members", "roles", "channels", "messages">>

EntityType(kind) ==
    CASE kind = "users" -> "User"
      [] kind = "members" -> "Member"
      [] kind = "roles" -> "Role"
      [] kind = "channels" -> "Channel"
      [] kind = "messages" -> "Message"

\* Array.from(x): a Map yields its [key, value] pairs; a plain object has
\* neither a length nor an iterator and yields [].
ArrayFrom(m) == IF m.shape = "Map" THEN m.entries ELSE <<>>

\* An element of Array.from(map): the two-element array [key, value].
Pair(e) == [t |-> "pair", key |-> e[1], value |-> e[2]]

\* map.set(key, value)
MapSet(entries, key, value) ==
    IF \E i \in 1..Len(entries) : entries[i][1] = key
    THEN [i \in 1..Len(entries) |->
             IF entries[i][1] = key THEN <<key, value>> ELSE entries[i]]
    ELSE Append(entries, <<key, value>>)

\* client.guilds.get(guildID)
GuildsGet(registry, guildID) ==
    IF guildID # Undefined /\ guildID.v \in registry
    THEN [t |-> "guild", id |-> guildID.v]
    ELSE Undefined

\* The data has the fields an entity constructor requires.
WellFormed(data) == data.t = "raw" /\ data.ok

\* Whether `new Entity(data, ...)` throws: a validating constructor
\* (strict) rejects data without the required fields.
ConstructorThrows(data, strict) == strict /\ ~WellFormed(data)

\* new User(data, client), new Member(data, guild, client), ...: the typed
\* entity, with the arguments it was given, by position, and its identity.
New(type, data, second, third, identity) ==
    [t |-> type, data |-> data, second |-> second, third |-> third,
     obj |-> identity]

\* The guild a Member is bound to: Member(data, guild, client) takes it as
\* its second argument.
GuildOf(member) == member.second

\* Array.from(...).forEach((entry, id) => map.set(id, new Type(entry, this._client)))
\* from element i on: the callback's first parameter is the element (a
\* [key, value] pair), its second the element's index.
RECURSIVE ForEach(_, _, _, _, _, _)
ForEach(arr, i, m, kind, strict, pass) ==
    IF i > Len(arr) THEN [map |-> m, err |-> NoError]
    ELSE IF ConstructorThrows(Pair(arr[i]), strict)
         THEN [map |-> m, err |-> PayloadShapeError]
    ELSE ForEach(arr, i + 1,
                 [m EXCEPT !.entries =
                     MapSet(@, <<"index", i - 1>>,
                            New(EntityType(kind), Pair(arr[i]), ClientRef,
                                Undefined, <<pass, kind, i - 1>>))],
                 kind, strict, pass)

\* A kind whose mapping is created although the payload has none.
HydrateKind_SynthesizeEmpty(kind, m, strict, pass) ==
    IF m = Undefined THEN [map |-> Mapping("Map", <<>>), err |-> NoError]
    ELSE IF kind = "roles" THEN [map |-> m, err |-> TypeError]
    ELSE ForEach(ArrayFrom(m), 1, m, kind, strict, pass)

\* One `if(info.data.resolved.<kind> !== undefined) {...}` block.  The
\* roles block calls this.Array.from: this.Array is undefined, so reading
\* its `from` throws a TypeError.
HydrateKind(kind, m, strict, pass) ==
    IF m = Undefined THEN [map |-> m, err |-> NoError]
    ELSE IF kind = "roles" THEN [map |-> m, err |-> TypeError]
    ELSE ForEach(ArrayFrom(m), 1, m, kind, strict, pass)

\* The blocks in source order; a throw ends the constructor.
RECURSIVE HydrateKinds(_, _, _, _)
HydrateKinds(resolved, ks, strict, pass) ==
    IF ks = <<>> THEN [resolved |-> resolved, err |-> NoError]
    ELSE LET k == Head(ks)
             r == HydrateKind(k, resolved[k], strict, pass)
             next == [resolved EXCEPT ![k] = r.map]
         IN  IF r.err # NoError THEN [resolved |-> next, err |-> r.err]
             ELSE HydrateKinds(next, Tail(ks), strict, pass)

\* new CommandInteraction(info, client): the payload object after the
\* constructor ran (this.data = info.data is mutated in place) and the
\* fields set on the interaction.
constructor(payload, registry, strict, pass) ==
    LET res == IF payload.resolved = Undefined
               THEN [resolved |-> Undefined, err |-> NoError]
               ELSE HydrateKinds(payload.resolved, Kinds, strict, pass)
    IN  [info |-> [payload EXCEPT !.resolved = res.resolved],
         self |->
            IF res.err # NoError
            THEN [status |-> res.err, guildID |-> Undefined,
                  member |-> Undefined, user |-> Undefined]
            ELSE [status |-> "constructed",
                  guildID |-> payload.guild_id,
                  member |->
                      IF payload.member = Undefined THEN Undefined
                      ELSE New("Member", payload.member,
                               GuildsGet(registry, payload.guild_id),
                               ClientRef, <<pass, "member">>),
                  user |->
                      IF payload.user = Undefined THEN Undefined
                      ELSE New("User", payload.user, ClientRef, Undefined,
                               <<pass, "user">>)]]

(* ------------------------------ payloads ------------------------------- *)

Shapes == {"object", "Map"}

\* The mapping of IDs 1..n; ID `bad` (0: none) lacks its required fields.
RawMapping(shape, n, bad) ==
    Mapping(shape, [i \in 1..n |-> <<<<"id", i>>, RawEntry(i, i # bad)>>])

KindChoices(shape, sizes, bad) ==
    {Undefined} \cup {RawMapping(shape, n, bad) : n \in sizes}

ResolvedBlocks(shape, bad) ==
    {Undefined} \cup
    [users : KindChoices(shape, 0..MaxIDs, bad),
     members : KindChoices(shape, 0..MaxIDs, bad),
     roles : KindChoices(shape, {1}, bad),
     channels : KindChoices(shape, {1}, bad),
     messages : KindChoices(shape, {1}, bad)]

Payloads ==
    {[guild_id |-> g, member |-> m,
      user |-> IF m = Undefined THEN RawEntry(1, TRUE) ELSE Undefined,
      resolved |-> r] :
        g \in {Undefined, Str("guild-1")},
        m \in {Undefined, RawEntry(1, TRUE)},
        r \in UNION {ResolvedBlocks(shape, bad) :
                        shape \in Shapes, bad \in 0..MaxIDs}}

\* The record of user i in client.users.
CachedUser(i) == [t |-> "User", data |-> RawEntry(i, TRUE), second |-> ClientRef,
                  third |-> Undefined, obj |-> <<0, "client.users", i>>]

InitResolver ==
    /\ raw \in Payloads
    /\ info = raw
    /\ self = [status |-> "none"]
    /\ guilds \in {{}, {"guild-1"}}
    /\ clientUsers \in {{}, {CachedUser(1)}}
    /\ passes = 0
    /\ acknowledged = "unset"
    /\ pending = EmptyBag
    /\ last = [kind |-> "constructed", op |-> "constructor", args |-> NoArgs,
               err |-> NoError, calls |-> <<>>, fn |-> "n/a",
               value |-> <<"n/a">>, ackBefore |-> acknowledged]
    /\ initialOK = 0
    /\ initialFailed = FALSE
    /\ transitions = 0
    /\ followupsOK = 0
    /\ overlapped = FALSE

\* One construction of a CommandInteraction from the payload object.
Construct ==
    /\ passes < MaxPasses
    /\ \E strict \in BOOLEAN :
          LET r == constructor(info, guilds, strict, passes + 1) IN
          /\ info' = r.info
          /\ self' = r.self
    /\ passes' = passes + 1
    /\ UNCHANGED <<raw, guilds, clientUsers>>
    /\ UNCHANGED <<acknowledged, pending, last, initialOK, initialFailed,
                   transitions, followupsOK, overlapped>>

NextResolver == Construct

SpecResolver == InitResolver /\ [][NextResolver]_vars

(* ============================ properties =============================== *)

InitialOps == {"acknowledge", "defer", "createMessage"}

FollowupOps == {"createFollowup", "editMessage", "editOriginalMessage",
                "deleteMessage", "deleteOriginalMessage", "getOriginalMessage"}

LocalErrors == {AlreadyAcknowledgedError, NotYetAcknowledgedError, EmptyContentError}

\* The last step was the invocation of a method (not a settlement).
Invoked == last.kind \in {"threw", "dispatched"}

IsInitialResponseCall(c) ==
    c.fn = "createInteractionResponse" /\ c.key = <<id, token>>

IsFollowupWebhookCall(c) ==
    c.fn = "executeWebhook" /\ c.key = <<applicationID, token>>

\* The invocation dispatched exactly one call, an initial response.
AdmittedAsInitial ==
    /\ last.err = NoError
    /\ Len(last.calls) = 1
    /\ IsInitialResponseCall(last.calls[1])

\* The invocation dispatched exactly one call, a followup webhook execution.
SentAsFollowup ==
    /\ last.err = NoError
    /\ Len(last.calls) = 1
    /\ IsFollowupWebhookCall(last.calls[1])

\* The invocation was rejected locally: no call, state untouched.
RejectedWith(e) ==
    /\ last.err = e
    /\ last.calls = <<>>
    /\ acknowledged = last.ackBefore

\* C1: when every operation completes before the next starts, at most one
\* initial-response call succeeds and moves the state to acknowledged; after
\* it, every acknowledge/defer raises AlreadyAcknowledgedError and every
\* createMessage is sent as a followup.
C1_AtMostOneInitialResponse ==
    ~overlapped =>
        /\ initialOK <= 1
        /\ transitions = initialOK
        /\ (Invoked /\ initialOK >= 1 /\ last.op \in {"acknowledge", "defer"})
              => RejectedWith(AlreadyAcknowledgedError)
        /\ (Invoked /\ initialOK >= 1 /\ last.op = "createMessage")
              => SentAsFollowup

C1_Witness ==
    /\ ~overlapped
    /\ initialOK = 1
    /\ Invoked
    /\ last.op = "defer"
    /\ last.err = AlreadyAcknowledgedError

\* C2: on an interaction on which no initial response has completed, each
\* followup-phase method fails with NotYetAcknowledgedError and leaves the
\* acknowledgment state unchanged.
C2_FollowupBeforeInitialRejected ==
    (Invoked /\ initialOK = 0 /\ last.op \in FollowupOps)
        => RejectedWith(NotYetAcknowledgedError)

\* C3: from `unset` every method has the outcome it has from `false`:
\* followup-phase methods are rejected with NotYetAcknowledgedError and
\* issue no call, acknowledge/defer/createMessage are admitted.
C3_UnsetBehavesLikeFalse ==
    (Invoked /\ last.ackBefore = "unset") =>
        /\ last.op \in FollowupOps => RejectedWith(NotYetAcknowledgedError)
        /\ last.op \in {"acknowledge", "defer"} => AdmittedAsInitial
        /\ last.op = "createMessage" =>
              [err |-> last.err, calls |-> last.calls]
                = [err |-> createMessage("false", last.args.content).err,
                   calls |-> createMessage("false", last.args.content).calls]

\* C4: once acknowledged, no step returns the state to a non-acknowledged
\* value, and the state becomes acknowledged at most once.
C4_AcknowledgedOneWay ==
    [][/\ acknowledged = "true" => acknowledged' = "true"
       /\ transitions' <= 1]_vars

C4_Witness ==
    /\ acknowledged = "true"
    /\ last.kind = "settled"
    /\ last.err = RemoteError
    /\ last.ackBefore = "true"
    /\ transitions = 1

\* C5: createMessage on an acknowledged interaction does not fail with
\* AlreadyAcknowledgedError; it does what createFollowup does with the
\* same content: one executeWebhook call keyed by (applicationID, token),
\* no initial-response call, and it settles with that call's value.
C5_CreateMessageRedirects ==
    /\ (Invoked /\ last.op = "createMessage" /\ last.ackBefore = "true") =>
          /\ SentAsFollowup
          /\ last.calls = <<executeWebhook(applicationID, token,
                                AssignWait(CoerceContent(last.args.content)))>>
          /\ acknowledged = "true"
    /\ (last.kind = "settled" /\ last.op = "createMessage"
            /\ last.fn = "executeWebhook" /\ last.err = NoError)
          => last.value = <<"resolved", "value of executeWebhook">>

C5_Witness ==
    /\ last.kind = "settled"
    /\ last.op = "createMessage"
    /\ last.fn = "executeWebhook"
    /\ last.err = NoError

\* C6: createMessage("") on a fresh interaction fails with
\* EmptyContentError, issues no call and leaves the state unacknowledged.
C6_EmptyStringRejected ==
    (Invoked /\ last.op = "createMessage" /\ last.ackBefore # "true"
        /\ last.args.content = Str(""))
        => RejectedWith(EmptyContentError)

\* The content argument carries neither text nor embeds: no argument at
\* all, or an object without content whose embeds is absent or empty.
CarriesNothing(content) ==
    \/ content = Undefined
    \/ /\ content.t = "object"
       /\ content.content = Undefined
       /\ content.embeds \in {"undefined", "empty"}

\* C7: on a non-acknowledged interaction createMessage rejects exactly the
\* content arguments that carry neither text nor embeds, with
\* EmptyContentError, before any call and without changing the state.
C7_EmptyContentRejected ==
    (Invoked /\ last.op = "createMessage" /\ last.ackBefore # "true") =>
        /\ CarriesNothing(last.args.content) => RejectedWith(EmptyContentError)
        /\ ~CarriesNothing(last.args.content) => last.err # EmptyContentError

\* C8: an invocation that ends in AlreadyAcknowledgedError,
\* NotYetAcknowledgedError or EmptyContentError has dispatched no call and
\* has left the acknowledgment state unchanged.
C8_LocalErrorsNeverReachNetwork ==
    [][last'.err \in LocalErrors =>
          /\ last'.calls = <<>>
          /\ pending' = pending
          /\ acknowledged' = acknowledged]_vars

C8_Witness ==
    /\ last.kind = "threw"
    /\ last.op = "deleteMessage"
    /\ last.err = NotYetAcknowledgedError
    /\ pending # EmptyBag

\* C9: a failed initial-response call rejects the caller's promise with the
\* remote error and leaves the state as it was; as long as no initial
\* response has succeeded the state is not acknowledged, and after a
\* failure acknowledge/defer/createMessage are again admitted as initial
\* responses.
C9_FailedInitialLeavesUnacknowledged ==
    /\ (last.kind = "settled" /\ last.fn = "createInteractionResponse"
            /\ last.err = RemoteError)
          => /\ acknowledged = last.ackBefore
             /\ last.value = <<"rejected", RemoteError>>
    /\ initialOK = 0 => acknowledged # "true"
    /\ (Invoked /\ initialFailed /\ initialOK = 0) =>
          /\ last.op \in {"acknowledge", "defer"} => AdmittedAsInitial
          /\ last.op = "createMessage" =>
                \/ AdmittedAsInitial
                \/ /\ RejectedWith(EmptyContentError)
                   /\ NoContentOrEmbeds(last.args.content)

C9_Witness ==
    /\ initialFailed
    /\ initialOK = 0
    /\ ~overlapped
    /\ Invoked
    /\ last.op = "createMessage"
    /\ AdmittedAsInitial

\* C10: once an initial response has succeeded, every createFollowup is
\* admitted, goes out as one executeWebhook call keyed by
\* (applicationID, token), never as an initial response, and the state
\* stays acknowledged, however many followups came before.
C10_FollowupAfterInitial ==
    (initialOK >= 1 /\ last.op = "createFollowup") =>
        /\ acknowledged = "true"
        /\ Invoked => SentAsFollowup
        /\ Invoked => last.calls[1].body
                        = AssignWait(CoerceContent(last.args.content))

C10_Witness ==
    /\ initialOK >= 1
    /\ followupsOK >= 2
    /\ Invoked
    /\ last.op = "createFollowup"
    /\ last.args.content = Obj(Str("hi"), "undefined", "undefined")
    /\ SentAsFollowup

\* Initial-response calls in flight.
InitialsInFlight ==
    LET es == {e \in BagToSet(pending) : e.fn = "createInteractionResponse"}
    IN  BagCardinality([e \in es |-> pending[e]])

\* C17: while an initial-response call is in flight or after one has
\* failed, with none completed, createFollowup, editMessage, deleteMessage
\* and getOriginalMessage are rejected at once with
\* NotYetAcknowledgedError and issue no webhook call.
C17_NoFollowupBeforeInitialCompletes ==
    (Invoked /\ initialOK = 0
        /\ (\/ initialFailed
            \/ \E e \in BagToSet(pending) : e.fn = "createInteractionResponse")
        /\ last.op \in {"createFollowup", "editMessage", "deleteMessage",
                        "getOriginalMessage"})
        => RejectedWith(NotYetAcknowledgedError)

\* C18: initial responses are not serialized: as long as no initial
\* response has succeeded, acknowledge/defer/createMessage pass the guard
\* and dispatch an initial-response call whatever is in flight; the guard
\* rejects or redirects only after one has succeeded.
C18_InitialResponsesNotSerialized ==
    /\ (Invoked /\ initialOK = 0 /\ last.op \in {"acknowledge", "defer"})
          => AdmittedAsInitial
    /\ (Invoked /\ initialOK = 0 /\ last.op = "createMessage")
          => (AdmittedAsInitial \/ RejectedWith(EmptyContentError))
    /\ (Invoked /\ last.op \in InitialOps
            /\ (last.err = AlreadyAcknowledgedError \/ SentAsFollowup))
          => initialOK >= 1

\* Two initial-response calls of one interaction in flight at once.
C18_Witness ==
    /\ InitialsInFlight >= 2
    /\ Invoked
    /\ last.op = "createMessage"
    /\ AdmittedAsInitial
    /\ \E e \in BagToSet(pending) : e.op \in {"acknowledge", "defer"}

\* C19: an invocation dispatches at most one client call (a redirected
\* createMessage exactly one executeWebhook call), and the settlement of a
\* call, failed or not, dispatches none: a remote failure rejects the
\* caller's promise with the remote error.
C19_NoRetry ==
    [][/\ last'.kind \in {"threw", "dispatched"} =>
             /\ Len(last'.calls) <= 1
             /\ BagCardinality(pending')
                   = BagCardinality(pending) + Len(last'.calls)
       /\ (last'.kind = "dispatched" /\ last'.op = "createMessage"
               /\ last'.ackBefore = "true") =>
             /\ Len(last'.calls) = 1
             /\ last'.calls[1].fn = "executeWebhook"
       /\ last'.kind = "settled" =>
             /\ BagCardinality(pending') = BagCardinality(pending) - 1
             /\ last'.err = RemoteError
                   => last'.value = <<"rejected", RemoteError>>]_vars

C19_Witness ==
    /\ last.kind = "settled"
    /\ last.op = "editMessage"
    /\ last.err = RemoteError
    /\ last.value = <<"rejected", RemoteError>>
    /\ pending = EmptyBag

\* C20: a followup-phase method leaves the acknowledgment state as it
\* was, whether it is rejected, fails remotely or succeeds; the state
\* changes only when an initial-response call of acknowledge, defer or
\* createMessage succeeds.
C20_FollowupOpsLeaveStateAlone ==
    /\ last.op \in FollowupOps => acknowledged = last.ackBefore
    /\ acknowledged # last.ackBefore =>
          /\ last.kind = "settled"
          /\ last.op \in InitialOps
          /\ last.fn = "createInteractionResponse"
          /\ last.err = NoError

C20_Witness ==
    /\ last.kind = "settled"
    /\ last.op = "deleteOriginalMessage"
    /\ last.err = NoError
    /\ last.ackBefore = "unset"
    /\ acknowledged = "unset"

DeferOps == {"acknowledge", "defer"}

\* The deferred initial-response call for `flags`, absent flags sent as 0.
DeferredCall(flags) ==
    createInteractionResponse(id, token, "DEFERRED_CHANNEL_MESSAGE_WITH_SOURCE",
                              [t |-> "object", flags |-> OrZero(flags)])

\* C21: acknowledge and defer are the same operation: in every reachable
\* state and for every flags value both throw the same error or dispatch
\* the same deferred initial-response call keyed by (id, token) with the
\* same continuation; what an invocation of either did is what the other
\* would have done from the same state with the same flags, and the
\* settlement of either changes the acknowledgment state the same way.
C21_AcknowledgeIsDefer ==
    /\ \A flags \in FlagsArgs :
          /\ acknowledge(acknowledged, flags) = defer(acknowledged, flags)
          /\ InFlight("op", acknowledge(acknowledged, flags))
                = InFlight("op", defer(acknowledged, flags))
    /\ (Invoked /\ last.op \in DeferOps) =>
          LET a == acknowledge(last.ackBefore, last.args.flags)
              d == defer(last.ackBefore, last.args.flags)
          IN  /\ last.err = a.err /\ last.err = d.err
              /\ last.calls = a.calls /\ last.calls = d.calls
              /\ last.err = NoError =>
                    /\ last.calls = <<DeferredCall(last.args.flags)>>
                    /\ last.calls[1].key = <<id, token>>
              /\ last.err # NoError =>
                    /\ last.err = AlreadyAcknowledgedError
                    /\ last.ackBefore = "true"
    /\ (last.kind = "settled" /\ last.op \in DeferOps) =>
          /\ last.fn = "createInteractionResponse"
          /\ acknowledged = IF last.err = NoError THEN update ELSE last.ackBefore
    /\ \A e \in BagToSet(pending) : e.op \in DeferOps =>
          [e EXCEPT !.op = "op"] \in
              BagToSet(InFlight("op", defer("false", Undefined)))
              \cap BagToSet(InFlight("op", acknowledge("false", Undefined)))

\* An acknowledge and a defer in flight together, the defer just invoked
\* without flags and sent with flags 0.
C21_Witness ==
    /\ last.kind = "dispatched"
    /\ last.op = "defer"
    /\ last.args.flags = Undefined
    /\ last.calls = <<DeferredCall(Num("0"))>>
    /\ \E e \in BagToSet(pending) : e.op = "acknowledge"
    /\ \E e \in BagToSet(pending) : e.op = "defer"

(* ------------------------ properties of hydration --------------------- *)

Keys(m) == {m.entries[i][1] : i \in 1..Len(m.entries)}

Entries(m) == {m.entries[i] : i \in 1..Len(m.entries)}

Lookup(m, key) == (CHOOSE e \in Entries(m) : e[1] = key)[2]

KindSet == {Kinds[i] : i \in 1..Len(Kinds)}

\* The payload has a resolved block with this kind in it.
HasKind(kind) == raw.resolved # Undefined /\ raw.resolved[kind] # Undefined

\* Key `key` of this kind holds one typed entity built from its raw entry.
HydratedFromRaw(kind, key) ==
    /\ key \in Keys(info.resolved[kind])
    /\ Lookup(info.resolved[kind], key).t = EntityType(kind)
    /\ Lookup(info.resolved[kind], key).data = Lookup(raw.resolved[kind], key)

AllWellFormed(kind) ==
    \A e \in Entries(raw.resolved[kind]) : WellFormed(e[2])

\* C11: when the users kind holds N well-formed IDs, the users mapping
\* after construction has exactly those N IDs as keys, each mapped to one
\* User built from that ID's raw entry.
C11_UsersHydratedExactly ==
    (self.status = "constructed" /\ HasKind("users") /\ AllWellFormed("users")) =>
        /\ Keys(info.resolved.users) = Keys(raw.resolved.users)
        /\ \A key \in Keys(raw.resolved.users) : HydratedFromRaw("users", key)

\* C12: a payload with a roles kind is constructed without error and its
\* roles mapping holds one Role per role ID.
C12_RolesHydrated ==
    (passes >= 1 /\ HasKind("roles") /\ self.status # PayloadShapeError) =>
        /\ self.status = "constructed"
        /\ Keys(info.resolved.roles) = Keys(raw.resolved.roles)
        /\ \A key \in Keys(raw.resolved.roles) : HydratedFromRaw("roles", key)

\* Some entry of the resolved block lacks its required fields.
HasMalformed ==
    /\ raw.resolved # Undefined
    /\ \E kind \in KindSet : HasKind(kind) /\ ~AllWellFormed(kind)

\* C13: a malformed entry does not abort construction: its ID is left out
\* of the output and every other ID of every kind is hydrated.
C13_MalformedEntrySkipped ==
    (passes >= 1 /\ HasMalformed /\ ~HasKind("roles")) =>
        /\ self.status = "constructed"
        /\ \A kind \in KindSet : HasKind(kind) =>
              \A e \in Entries(raw.resolved[kind]) :
                  IF WellFormed(e[2]) THEN HydratedFromRaw(kind, e[1])
                  ELSE e[1] \notin Keys(info.resolved[kind])

\* C14: when the interaction's guild is not in the registry (or it has no
\* guild ID), construction succeeds and the invoking member and every
\* resolved member is a Member record bound to no guild.
C14_GuildlessMembers ==
    (passes >= 1 /\ GuildsGet(guilds, raw.guild_id) = Undefined) =>
        /\ raw.resolved = Undefined => self.status = "constructed"
        /\ (self.status = "constructed" /\ raw.member # Undefined) =>
              /\ self.member.t = "Member"
              /\ GuildOf(self.member) = Undefined
        /\ (self.status = "constructed" /\ HasKind("members")
                /\ AllWellFormed("members")) =>
              \A key \in Keys(raw.resolved.members) :
                  /\ HydratedFromRaw("members", key)
                  /\ GuildOf(Lookup(info.resolved.members, key)) = Undefined

\* C15: after any number of constructions the user cache holds exactly one
\* record per hydrated user ID and the entity in the resolved map is that
\* cache record.
C15_HydratedUsersAreCacheRecords ==
    (self.status = "constructed" /\ HasKind("users") /\ AllWellFormed("users")) =>
        \A e \in Entries(raw.resolved.users) :
            /\ Cardinality({c \in clientUsers : c.data.id = e[2].id}) = 1
            /\ e[1] \in Keys(info.resolved.users)
            /\ Lookup(info.resolved.users, e[1]) \in clientUsers

\* C16: a kind absent from the payload's resolved block has no mapping
\* after construction, an absent resolved block stays absent, and a
\* kind's mapping holds only its own raw entries and entities of its own
\* kind: hydrating one kind does not write into another.
C16_AbsentKindsUntouched ==
    passes >= 1 =>
        /\ raw.resolved = Undefined => info.resolved = Undefined
        /\ raw.resolved # Undefined =>
              /\ info.resolved # Undefined
              /\ \A kind \in KindSet :
                    IF raw.resolved[kind] = Undefined
                    THEN info.resolved[kind] = Undefined
                    ELSE /\ info.resolved[kind] # Undefined
                         /\ Entries(raw.resolved[kind])
                               \subseteq Entries(info.resolved[kind])
                         /\ \A e \in Entries(info.resolved[kind]) :
                               \/ e \in Entries(raw.resolved[kind])
                               \/ /\ e[1][1] = "index"
                                  /\ e[2].t = EntityType(kind)
                                  /\ e[2].obj[2] = kind

C16_Witness ==
    /\ passes >= 1
    /\ self.status = "constructed"
    /\ raw.resolved # Undefined
    /\ raw.resolved.users # Undefined
    /\ raw.resolved.members = Undefined
    /\ raw.resolved.channels = Undefined
    /\ info.resolved.users # raw.resolved.users
    /\ info.resolved.members = Undefined
    /\ info.resolved.channels = Undefined

====
